---- MODULE Spec2Model ----
(***************************************************************************)
(* bed-to-bedgraph: src/main.rs.                                           *)
(*                                                                         *)
(* Text is modelled at byte level: the input file, a line, a field and     *)
(* what is written are sequences of bytes (0..255); the literals of the    *)
(* module are ASCII texts turned into their bytes.  read_line takes a      *)
(* line only when its bytes are UTF-8, trim takes off the whitespace       *)
(* characters in their UTF-8 forms, and the numeric parsers and the        *)
(* formatter work on the bytes.                                            *)
(* A u32 is its canonical decimal digits.  An f64 is held as what Display  *)
(* prints of it: the digits and the decimal exponent of the shortest       *)
(* decimal that reads back as the same f64; str::parse::<f64> rounds a     *)
(* literal to the nearest f64 in exact arithmetic, overflows to an         *)
(* infinity and underflows to zero.                                        *)
(* The writer is the chain the code builds: a BufWriter of BufCapacity     *)
(* bytes over the output file, or over stdout, which is line-buffered      *)
(* itself (a LineWriter of StdoutCapacity bytes).  Every write_str of the  *)
(* formatter is one write_all on the BufWriter.                            *)
(* The environment can fail: an open or a read can return an error,        *)
(* --output can name the file --input names, stderr can be unwritable,     *)
(* and the destination can run out of room, after which it takes no more   *)
(* bytes.  A panic unwinds main (the default panic strategy), and the      *)
(* runtime flushes stdout when the process ends.                           *)
(***************************************************************************)
EXTENDS Integers, Sequences, FiniteSets, TLC

VARIABLES
    input,                  \* contents of the file named by --input
    output,                 \* args.output: "file" (Some) or "stdout" (None)
    value_column,           \* args.value_column
    sink_fails,             \* the destination can run out of room
    pc,                     \* position of main
    rest,                   \* BedParser.input_file: the unread part of input
    writer_created,         \* create_bedgraph_writer returned Ok
    buf,                    \* BufWriter: bytes accepted but not yet handed on
    held,                   \* stdout's LineWriter: bytes it holds back
    dest,                   \* the output file, or what stdout's descriptor got
    sink_rejected,          \* a write of the destination did not take all
    output_is_input,        \* --output names the file --input names
    index_to_parse,         \* main's index_to_parse
    has_parsed_first_line,  \* main's has_parsed_first_line
    record,                 \* the loop variable: records the iterator yielded
    diag,                   \* indexes named by eprintln! diagnostics
    panic_msg               \* message of the panic that ended the run

vars == <<input, output, value_column, sink_fails, pc, rest, writer_created,
          buf, held, dest, sink_rejected, output_is_input, index_to_parse,
          has_parsed_first_line, record, diag, panic_msg>>

\* ------------------------------------------------------------- bounds
MaxLines == 2
MaxValues == 2
MaxRoom == 30

\* BufWriter::new: DEFAULT_BUF_SIZE
BufCapacity == 8192

\* std::io::stdout(): the capacity of its LineWriter
StdoutCapacity == 1024

\* ------------------------------------------------------------- text
\* The printable ASCII characters a string of a module can hold, in the
\* order of their codes: U+0020 to U+005F, and U+0061 to U+007E
AsciiLow ==
    <<" ", "!", "\"", "#", "$", "%", "&", "'", "(", ")", "*", "+", ",", "-",
      ".", "/", "0", "1", "2", "3", "4", "5", "6", "7", "8", "9", ":", ";",
      "<", "=", ">", "?", "@", "A", "B", "C", "D", "E", "F", "G", "H", "I",
      "J", "K", "L", "M", "N", "O", "P", "Q", "R", "S", "T", "U", "V", "W",
      "X", "Y", "Z", "[", "\\", "]", "^", "_">>

AsciiHigh ==
    <<"a", "b", "c", "d", "e", "f", "g", "h", "i", "j", "k", "l", "m", "n",
      "o", "p", "q", "r", "s", "t", "u", "v", "w", "x", "y", "z", "{", "|",
      "}", "~">>

\* the byte of an ASCII character, as in a literal b'c'
Byte(c) ==
    CASE c = "\t" -> 9 [] c = "\n" -> 10 [] c = "\f" -> 12 [] c = "\r" -> 13
      [] \E i \in 1..Len(AsciiLow) : AsciiLow[i] = c ->
            31 + CHOOSE i \in 1..Len(AsciiLow) : AsciiLow[i] = c
      [] OTHER -> 96 + CHOOSE i \in 1..Len(AsciiHigh) : AsciiHigh[i] = c

\* the bytes of an ASCII text, as in a literal b"text"
Bytes(s) == [i \in 1..Len(s) |-> Byte(s[i])]

TAB == 9
NL == 10

\* the byte at place i of s, and a byte no text holds where s has none
At(s, i) == IF i \in 1..Len(s) THEN s[i] ELSE 256

\* a byte that continues a character of more than one byte
IsContinuation(b) == b \in 128..191

\* the number of bytes of the character a byte begins, 0 when no character
\* begins with it
CharLen(b) ==
    IF b < 128 THEN 1
    ELSE IF b \in 194..223 THEN 2
    ELSE IF b \in 224..239 THEN 3
    ELSE IF b \in 240..244 THEN 4
    ELSE 0

\* str::from_utf8(s).is_ok(): every byte that is no continuation begins a
\* character whose other bytes are continuations, followed by no further
\* continuation; no overlong form, no surrogate, nothing above U+10FFFF
ValidUtf8(s) ==
    \A i \in 1..Len(s) :
        IF IsContinuation(s[i]) THEN i > 1
        ELSE /\ CharLen(s[i]) > 0
             /\ \A j \in (i + 1)..(i + CharLen(s[i]) - 1) :
                   IsContinuation(At(s, j))
             /\ ~IsContinuation(At(s, i + CharLen(s[i])))
             /\ s[i] = 224 => At(s, i + 1) >= 160
             /\ s[i] = 237 => At(s, i + 1) <= 159
             /\ s[i] = 240 => At(s, i + 1) >= 144
             /\ s[i] = 244 => At(s, i + 1) <= 143

\* the number of bytes of the whitespace character (char::is_whitespace)
\* that begins at place i of s, 0 when none does: U+0009..U+000D, U+0020,
\* U+0085, U+00A0, U+1680, U+2000..U+200A, U+2028, U+2029, U+202F, U+205F,
\* U+3000 in UTF-8
WhitespaceAt(s, i) ==
    LET b1 == At(s, i)
        b2 == At(s, i + 1)
        b3 == At(s, i + 2)
    IN  IF b1 \in 9..13 \/ b1 = 32 THEN 1
        ELSE IF b1 = 194 /\ b2 \in {133, 160} THEN 2
        ELSE IF b1 = 225 /\ b2 = 154 /\ b3 = 128 THEN 3
        ELSE IF b1 = 226 /\ b2 = 128 /\ b3 \in (128..138) \cup {168, 169, 175}
        THEN 3
        ELSE IF b1 = 226 /\ b2 = 129 /\ b3 = 159 THEN 3
        ELSE IF b1 = 227 /\ b2 = 128 /\ b3 = 128 THEN 3
        ELSE 0

\* the byte at place j of s belongs to a whitespace character
IsWhitespace(s, j) ==
    \E i \in (j - 2)..j : i >= 1 /\ WhitespaceAt(s, i) > j - i

IsDigit(c) == c \in 48..57

DigitValue(c) == c - 48

DigitChar(d) == d + 48

AllDigits(s) == \A i \in 1..Len(s) : IsDigit(s[i])

\* str::trim_start: the longest prefix of whitespace removed
TrimStart(s) ==
    SubSeq(s,
           1 + Cardinality({i \in 1..Len(s) :
                               \A j \in 1..i : IsWhitespace(s, j)}),
           Len(s))

\* str::trim_end: the longest suffix of whitespace removed
TrimEnd(s) ==
    SubSeq(s, 1,
           Len(s) - Cardinality({i \in 1..Len(s) :
                                    \A j \in i..Len(s) : IsWhitespace(s, j)}))

\* str::trim: leading and trailing whitespace removed
Trim(s) == TrimEnd(TrimStart(s))

\* str::split(sep).collect(): the pieces between the separators, always at
\* least one field
Split(s, sep) ==
    LET seps == {i \in 1..Len(s) : s[i] = sep}
        n == Cardinality(seps)
        Pos(k) == IF k = 0 THEN 0
                  ELSE IF k = n + 1 THEN Len(s) + 1
                  ELSE CHOOSE p \in seps :
                          Cardinality({q \in seps : q < p}) = k - 1
    IN  [k \in 1..(n + 1) |-> SubSeq(s, Pos(k - 1) + 1, Pos(k) - 1)]

\* leading zeros removed, one digit at least kept
StripZeros(ds) ==
    SubSeq(ds,
           1 + Cardinality({i \in 1..(Len(ds) - 1) :
                               \A j \in 1..i : ds[j] = DigitChar(0)}),
           Len(ds))

StripTrailingZeros(ds) ==
    SubSeq(ds, 1,
           Len(ds) - Cardinality({i \in 1..Len(ds) :
                                     \A j \in i..Len(ds) : ds[j] = DigitChar(0)}))

\* a < b for canonical digit sequences of equal length
DigitsLess(a, b) ==
    \E i \in 1..Len(a) :
        /\ DigitValue(a[i]) < DigitValue(b[i])
        /\ \A j \in 1..(i - 1) : a[j] = b[j]

\* a > b for canonical digit sequences
DigitsGreater(a, b) ==
    \/ Len(a) > Len(b)
    \/ Len(a) = Len(b) /\ DigitsLess(b, a)

RECURSIVE DigitsToNat(_)
DigitsToNat(ds) ==
    IF Len(ds) = 0 THEN 0
    ELSE 10 * DigitsToNat(SubSeq(ds, 1, Len(ds) - 1)) + DigitValue(ds[Len(ds)])

RECURSIVE DigitsToNeg(_)
\* the negative number with these digits, accumulated below zero as
\* from_str_radix does for a '-' literal
DigitsToNeg(ds) ==
    IF Len(ds) = 0 THEN 0
    ELSE 10 * DigitsToNeg(SubSeq(ds, 1, Len(ds) - 1)) - DigitValue(ds[Len(ds)])

Zeros(n) == [i \in 1..n |-> DigitChar(0)]

\* the lower-case letter of an ASCII upper-case letter, any other byte
\* itself: inf, infinity and nan are read in either case
Lower(c) == IF c \in 65..90 THEN c + 32 ELSE c

RECURSIVE NatToDigits(_)
NatToDigits(n) ==
    IF n < 10 THEN <<DigitChar(n)>>
    ELSE Append(NatToDigits(n \div 10), DigitChar(n % 10))

\* ------------------------------------------------------------- integers
Ok(v) == [ok |-> TRUE, val |-> v]
Err == [ok |-> FALSE]

U32Max == Bytes(<<"4", "2", "9", "4", "9", "6", "7", "2", "9", "5">>)
I32Max == Bytes(<<"2", "1", "4", "7", "4", "8", "3", "6", "4", "7">>)
I32MinMagnitude == Bytes(<<"2", "1", "4", "7", "4", "8", "3", "6", "4", "8">>)

\* str::parse::<u32>: an optional '+', then digits, at most u32::MAX
ParseU32(s) ==
    LET body == IF Len(s) > 0 /\ s[1] = Byte("+") THEN Tail(s) ELSE s
    IN  IF Len(body) = 0 \/ ~AllDigits(body) THEN Err
        ELSE IF DigitsGreater(StripZeros(body), U32Max) THEN Err
        ELSE Ok(StripZeros(body))

\* str::parse::<i32>: an optional sign, then digits, within
\* i32::MIN..i32::MAX
ParseI32(s) ==
    LET neg == Len(s) > 0 /\ s[1] = Byte("-")
        body == IF Len(s) > 0 /\ s[1] \in {Byte("+"), Byte("-")} THEN Tail(s) ELSE s
    IN  IF Len(body) = 0 \/ ~AllDigits(body) THEN Err
        ELSE IF neg
        THEN (IF DigitsGreater(StripZeros(body), I32MinMagnitude) THEN Err
              ELSE Ok(DigitsToNeg(StripZeros(body))))
        ELSE IF DigitsGreater(StripZeros(body), I32Max) THEN Err
        ELSE Ok(DigitsToNat(StripZeros(body)))

\* Display of u32
FmtU32(n) == n

\* ------------------------------------------------------------- big numbers
\* A natural number of any size is the sequence of its base-1000 digits,
\* the least significant first, without high zeros; <<>> is zero.  They
\* carry the exact arithmetic behind str::parse::<f64> and Display of f64.
\* the one element of a set of one element.  A value named by the bound
\* variable of a set constructor, x \in {e}, is computed once, before the
\* expression that uses it; the long computations below name their
\* intermediate results that way
The(S) == CHOOSE y \in S : TRUE

BLimb(a, i) == IF i >= 1 /\ i <= Len(a) THEN a[i] ELSE 0

\* high zeros removed
BTrim(a) ==
    SubSeq(a, 1,
           Len(a) - Cardinality({i \in 1..Len(a) :
                                    \A j \in i..Len(a) : a[j] = 0}))

\* one round of carrying: every digit keeps its three low decimals and
\* hands the rest to the next
CarryPass(q) ==
    [i \in 1..(Len(q) + 1) |->
        (BLimb(q, i) % 1000) + (BLimb(q, i - 1) \div 1000)]

\* the digits of the number sum q[i] * 1000^(i-1), for q[i] < 2^31
BCarry(q) ==
    LET r == CarryPass(CarryPass(CarryPass(q)))
        CarryIn(i) ==
            \E j \in 1..(i - 1) :
                r[j] >= 1000 /\ \A k \in (j + 1)..(i - 1) : r[k] >= 999
    IN  BTrim([i \in 1..(Len(r) + 1) |->
                  (BLimb(r, i) + (IF CarryIn(i) THEN 1 ELSE 0)) % 1000])

\* a number below 2^31
BFromNat(n) == BCarry(<<n>>)

BOne == <<1>>

\* -1, 0 or 1 as a is less than, equal to or greater than b
BCmp(a, b) ==
    LET top == Len(a) - Cardinality({i \in 1..Len(a) :
                                       \A j \in i..Len(a) : a[j] = b[j]})
    IN  IF Len(a) < Len(b) THEN 0 - 1
        ELSE IF Len(a) > Len(b) THEN 1
        ELSE IF top = 0 THEN 0
        ELSE IF a[top] < b[top] THEN 0 - 1
        ELSE 1

BAdd(a, b) ==
    BCarry([i \in 1..(IF Len(a) > Len(b) THEN Len(a) ELSE Len(b)) |->
               BLimb(a, i) + BLimb(b, i)])

\* a - b, for a >= b
BSub(a, b) ==
    LET d == [i \in 1..Len(a) |-> a[i] - BLimb(b, i)]
        BorrowIn(i) ==
            \E j \in 1..(i - 1) :
                d[j] < 0 /\ \A k \in (j + 1)..(i - 1) : d[k] <= 0
    IN  BTrim([i \in 1..Len(a) |->
                  (d[i] - (IF BorrowIn(i) THEN 1 ELSE 0) + 1000) % 1000])

\* a * c, for c <= 1000000
BMulSmall(a, c) == BCarry([i \in 1..Len(a) |-> a[i] * c])

RECURSIVE SumProducts(_, _, _, _, _)
\* the sum of a[j] * b[i - j + 1] for j in lo..hi
SumProducts(a, b, i, lo, hi) ==
    IF lo > hi THEN 0
    ELSE IF lo = hi THEN a[lo] * b[i - lo + 1]
    ELSE SumProducts(a, b, i, lo, (lo + hi) \div 2)
            + SumProducts(a, b, i, (lo + hi) \div 2 + 1, hi)

\* a * b
BMul(a, b) ==
    IF Len(a) = 0 \/ Len(b) = 0 THEN <<>>
    ELSE BCarry([i \in 1..(Len(a) + Len(b) - 1) |->
                    SumProducts(a, b, i,
                                IF i - Len(b) + 1 > 1 THEN i - Len(b) + 1 ELSE 1,
                                IF i < Len(a) THEN i ELSE Len(a))])

RECURSIVE BPow2(_)
\* 2^k
BPow2(k) ==
    IF k <= 30 THEN BFromNat(2^k)
    ELSE The({BMul(x, y) : x \in {BPow2(k \div 2)},
                           y \in {BPow2(k - k \div 2)}})

\* a * 2^k
BMulPow2(a, k) ==
    IF k = 0 THEN a ELSE The({BMul(x, y) : x \in {a}, y \in {BPow2(k)}})

\* a * 10^k
BMulPow10(a, k) ==
    IF Len(a) = 0 THEN a
    ELSE BMulSmall([i \in 1..(k \div 3) |-> 0] \o a,
                   IF k % 3 = 0 THEN 1 ELSE IF k % 3 = 1 THEN 10 ELSE 100)

\* the number with the decimal digits ds
BFromDigits(ds) ==
    LET n == Len(ds)
    IN  BTrim([j \in 1..((n + 2) \div 3) |->
                  DigitsToNat(SubSeq(ds,
                                     IF n - 3 * j + 1 < 1 THEN 1
                                     ELSE n - 3 * j + 1,
                                     n - 3 * (j - 1)))])

\* the number of decimal digits of a
BNumDigits(a) ==
    IF Len(a) = 0 THEN 0
    ELSE 3 * (Len(a) - 1) + Len(NatToDigits(a[Len(a)]))

BIsEven(a) == Len(a) = 0 \/ a[1] % 2 = 0

\* one binary digit of a quotient: st.r is what is left of the dividend,
\* st.q the digits found so far, d the divisor at the weight of the digit;
\* what is left is doubled for the next digit
DivStep(st, d) ==
    IF BCmp(st.r, d) >= 0
    THEN [r |-> BMulSmall(BSub(st.r, d), 2),
          q |-> BAdd(BMulSmall(st.q, 2), BOne)]
    ELSE [r |-> BMulSmall(st.r, 2), q |-> BMulSmall(st.q, 2)]

RECURSIVE DivSteps(_, _, _)
\* n binary digits of a quotient, one after the other
DivSteps(st, d, n) ==
    IF n = 0 THEN st
    ELSE IF n = 1 THEN DivStep(st, d)
    ELSE The({DivSteps(half, d, n - n \div 2) :
                 half \in {DivSteps(st, d, n \div 2)}})

\* the digit floor(r / s), for r < 10 * s
BDigitOf(r, s) == Cardinality({t \in 1..9 : BCmp(BMulSmall(s, t), r) <= 0})

\* ------------------------------------------------------------- f64
\* An f64 is nan, an infinity, a zero, or a finite number; a finite number
\* is held as the digits and the decimal exponent of its shortest decimal
\* text that reads back as the same f64 (value = 0.digits * 10^exp), which
\* is what Display works from.
F64(neg, digits, exp) ==
    [kind |-> "num", neg |-> neg, digits |-> digits, exp |-> exp]

F64Inf(neg) == [kind |-> "inf", neg |-> neg, digits |-> <<>>, exp |-> 0]

F64NaN == [kind |-> "nan", neg |-> FALSE, digits |-> <<>>, exp |-> 0]

F64Signed0(neg) == [kind |-> "zero", neg |-> neg, digits |-> <<>>, exp |-> 0]

\* 0.0
F64Zero == F64Signed0(FALSE)

\* v >= 2^b, for v = n / m
AtLeastPow2(n, m, b) ==
    IF b >= 0 THEN BCmp(n, BMulPow2(m, b)) >= 0
    ELSE BCmp(BMulPow2(n, 0 - b), m) >= 0

\* the b with 2^b <= n / m < 2^(b+1), for a b0 less than it by 8 at most
BinaryExponent(n, m, b0) ==
    b0 + Cardinality({t \in 1..8 : AtLeastPow2(n, m, b0 + t)})

\* the quotient n / m rounded to the nearest multiple of 2^s, ties to even,
\* as mant * 2^exp2, for n / m < 2^(s + 54): 54 binary digits of the quotient
\* are found, then what is left is compared with one half
RoundedQuotient(n, m, s) ==
    LET a == IF s < 0 THEN BMulPow2(n, 0 - s) ELSE n
        d == IF s > 0 THEN BMulPow2(m, s + 53) ELSE BMulPow2(m, 53)
        Rounded(qr, top) ==
            IF BCmp(qr.r, top) > 0 \/ (BCmp(qr.r, top) = 0 /\ ~BIsEven(qr.q))
            THEN BAdd(qr.q, BOne)
            ELSE qr.q
    IN  The({Rounded(DivSteps([r |-> x, q |-> <<>>], top, 54), top) :
                x \in {a}, top \in {d}})

\* The f64 nearest to 0.digits * 10^point (ties to even), as mant * 2^exp2
\* with mant < 2^53: the digits are non-empty with no zero at either end and
\* -324 < point < 310.
NearestF64(digits, point) ==
    LET q == point - Len(digits)
        Nearest(n, m, b) ==
            LET s == IF b - 52 < 0 - 1074 THEN 0 - 1074 ELSE b - 52
                Finite(mant) ==
                    IF Len(mant) = 0 THEN [kind |-> "zero"]
                    ELSE IF BCmp(mant, BPow2(53)) # 0
                    THEN [kind |-> "num", mant |-> mant, exp2 |-> s]
                    ELSE IF s + 1 > 971 THEN [kind |-> "inf"]
                    ELSE [kind |-> "num", mant |-> BPow2(52), exp2 |-> s + 1]
            IN  IF b > 1023 THEN [kind |-> "inf"]
                ELSE The({Finite(mant) : mant \in {RoundedQuotient(n, m, s)}})
    IN  The({The({Nearest(n, m, b) :
                     b \in {BinaryExponent(n, m,
                               ((point + 399) * 33219) \div 10000 - 1330)}}) :
                n \in {IF q >= 0 THEN BMulPow10(BFromDigits(digits), q)
                       ELSE BFromDigits(digits)},
                m \in {IF q < 0 THEN BMulPow10(BOne, 0 - q) ELSE BOne}})

RECURSIVE RoundUpDigits(_)
\* flt2dec::round_up: the last digit goes up, with the carry; digits that
\* were all 9 become 1 followed by zeros, one more than before
RoundUpDigits(ds) ==
    IF Len(ds) = 0 THEN <<DigitChar(1)>>
    ELSE IF ds[Len(ds)] = DigitChar(9)
    THEN RoundUpDigits(SubSeq(ds, 1, Len(ds) - 1)) \o <<DigitChar(0)>>
    ELSE SubSeq(ds, 1, Len(ds) - 1)
            \o <<DigitChar(DigitValue(ds[Len(ds)]) + 1)>>

\* flt2dec::strategy::dragon::format_shortest, one turn of the digit loop:
\* st.r / s is what is left of the value, st.lo / s and st.hi / s the
\* distances to the ends of the interval that reads back as the f64; incl
\* tells whether the ends belong to the interval.  A digit is generated;
\* the loop is left when the digits so far are inside the interval from
\* below (down) or from above (up)
ShortestStep(st, s, incl) ==
    IF st.done THEN st
    ELSE LET Turn(digit, rem) ==
                 LET down == IF incl THEN BCmp(rem, st.lo) <= 0
                             ELSE BCmp(rem, st.lo) < 0
                     up == IF incl THEN BCmp(s, BAdd(rem, st.hi)) <= 0
                           ELSE BCmp(s, BAdd(rem, st.hi)) < 0
                 IN  IF down \/ up
                     THEN [r |-> rem, lo |-> st.lo, hi |-> st.hi,
                           ds |-> Append(st.ds, DigitChar(digit)),
                           done |-> TRUE, down |-> down, up |-> up]
                     ELSE [r |-> BMulSmall(rem, 10),
                           lo |-> BMulSmall(st.lo, 10),
                           hi |-> BMulSmall(st.hi, 10),
                           ds |-> Append(st.ds, DigitChar(digit)),
                           done |-> FALSE, down |-> FALSE, up |-> FALSE]
         IN  The({Turn(digit, BSub(st.r, BMulSmall(s, digit))) :
                     digit \in {BDigitOf(st.r, s)}})

RECURSIVE ShortestSteps(_, _, _, _)
\* n turns of the digit loop, one after the other
ShortestSteps(st, s, incl, n) ==
    IF n = 1 THEN ShortestStep(st, s, incl)
    ELSE The({ShortestSteps(half, s, incl, n - n \div 2) :
                 half \in {ShortestSteps(st, s, incl, n \div 2)}})

\* flt2dec::decode and format_shortest: the shortest digits, and their
\* decimal exponent, that read back as mant * 2^exp2; they are 17 at most
\* (MAX_SIG_DIGITS)
Shortest(mant, exp2) ==
    LET edge == BCmp(mant, BPow2(52)) = 0
        incl == BCmp(mant, BPow2(52)) < 0 \/ BIsEven(mant)
        e == IF edge THEN exp2 - 2 ELSE exp2 - 1
        up2 == IF e > 0 THEN e ELSE 0
        \* the exponent k with 10^(k-1) < high <= 10^k (or <= and <), for
        \* high = top / scale
        Scaling(top, scale) ==
            LET est == BNumDigits(top) - BNumDigits(scale)
                below == BCmp(BMulPow10(top, IF est < 0 THEN 0 - est ELSE 0),
                              BMulPow10(scale, IF est > 0 THEN est ELSE 0))
            IN  IF (IF incl THEN below < 0 ELSE below <= 0)
                THEN est ELSE est + 1
        \* the rounding after the loop
        Finish(st, s, k) ==
            IF st.up /\ (~st.down \/ BCmp(BMulSmall(st.r, 2), s) >= 0)
            THEN [digits |-> RoundUpDigits(st.ds),
                  exp |-> IF Len(RoundUpDigits(st.ds)) > Len(st.ds)
                          THEN k + 1 ELSE k]
            ELSE [digits |-> st.ds, exp |-> k]
        Digits(v, lo, hi, scale, k) ==
            LET num10 == IF k - 1 < 0 THEN 1 - k ELSE 0
                den10 == IF k - 1 > 0 THEN k - 1 ELSE 0
            IN  The({Finish(ShortestSteps(st, s, incl, 17), s, k) :
                        st \in {[r |-> BMulPow10(v, num10),
                                 lo |-> BMulPow10(lo, num10),
                                 hi |-> BMulPow10(hi, num10),
                                 ds |-> <<>>, done |-> FALSE,
                                 down |-> FALSE, up |-> FALSE]},
                        s \in {BMulPow10(scale, den10)}})
    IN  The({The({Digits(v, lo, hi, scale, k) :
                     k \in {Scaling(BAdd(v, hi), scale)}}) :
                v \in {BMulPow2(BMulSmall(mant, IF edge THEN 4 ELSE 2), up2)},
                lo \in {BPow2(up2)},
                hi \in {BMulPow2(IF edge THEN <<2>> ELSE BOne, up2)},
                scale \in {IF e < 0 THEN BPow2(0 - e) ELSE BOne}})

\* the f64 a decimal literal stands for: the digits are non-empty with no
\* zero at either end, the value is 0.digits * 10^point.  A literal of at
\* most 15 digits well inside the normal range is its own shortest text;
\* every other one is rounded to the nearest f64.
DecimalToF64(neg, digits, point) ==
    IF point > 309 THEN F64Inf(neg)
    ELSE IF point < 0 - 323 THEN F64Signed0(neg)
    ELSE IF Len(digits) <= 15 /\ point > 0 - 307 /\ point <= 308
    THEN F64(neg, digits, point)
    ELSE LET Made(f) ==
                 IF f.kind = "inf" THEN F64Inf(neg)
                 ELSE IF f.kind = "zero" THEN F64Signed0(neg)
                 ELSE The({F64(neg, sh.digits, sh.exp) :
                              sh \in {Shortest(f.mant, f.exp2)}})
         IN  The({Made(f) : f \in {NearestF64(digits, point)}})

\* dec2flt::parse::parse_scientific: the value of an exponent's digits; the
\* digits after the value has reached 65536 are read and dropped, which
\* leaves the first five digits after the leading zeros, or the first six
ExponentValue(ds) ==
    LET sig == StripZeros(ds)
        five == DigitsToNat(SubSeq(sig, 1, 5))
    IN  IF Len(sig) <= 5 THEN DigitsToNat(sig)
        ELSE IF five >= 65536 THEN five
        ELSE DigitsToNat(SubSeq(sig, 1, 6))

\* str::parse::<f64>: sign? then inf, infinity or nan in any case, or
\* digits* ('.' digits*)? with at least one digit and an optional exponent
\* [eE] sign? digits+
ParseF64(s) ==
    LET neg == Len(s) > 0 /\ s[1] = Byte("-")
        body == IF Len(s) > 0 /\ s[1] \in {Byte("+"), Byte("-")} THEN Tail(s) ELSE s
        low == [i \in 1..Len(body) |-> Lower(body[i])]
        es == {i \in 1..Len(body) : body[i] \in {Byte("e"), Byte("E")}}
        epos == IF es = {} THEN Len(body) + 1 ELSE CHOOSE i \in es : TRUE
        mant == SubSeq(body, 1, epos - 1)
        expt == SubSeq(body, epos + 1, Len(body))
        eneg == Len(expt) > 0 /\ expt[1] = Byte("-")
        ebody == IF Len(expt) > 0 /\ expt[1] \in {Byte("+"), Byte("-")}
                 THEN Tail(expt) ELSE expt
        dots == {i \in 1..Len(mant) : mant[i] = Byte(".")}
        dot == IF dots = {} THEN Len(mant) + 1 ELSE CHOOSE i \in dots : TRUE
        ip == SubSeq(mant, 1, dot - 1)
        fr == SubSeq(mant, dot + 1, Len(mant))
        e == IF es = {} THEN 0
             ELSE IF eneg THEN 0 - ExponentValue(ebody)
             ELSE ExponentValue(ebody)
        all == StripZeros(ip \o fr)
        lead == Len(ip \o fr) - Len(all)
        digits == StripTrailingZeros(all)
    IN  IF low = Bytes(<<"i", "n", "f">>)
           \/ low = Bytes(<<"i", "n", "f", "i", "n", "i", "t", "y">>)
        THEN Ok(F64Inf(neg))
        ELSE IF low = Bytes(<<"n", "a", "n">>) THEN Ok(F64NaN)
        ELSE IF Cardinality(es) > 1 \/ Cardinality(dots) > 1 THEN Err
        ELSE IF ~AllDigits(ip) \/ ~AllDigits(fr) THEN Err
        ELSE IF Len(ip) + Len(fr) = 0 THEN Err
        ELSE IF es # {} /\ (Len(ebody) = 0 \/ ~AllDigits(ebody)) THEN Err
        ELSE IF Len(digits) = 0 THEN Ok(F64Signed0(neg))
        ELSE Ok(DecimalToF64(neg, digits, Len(ip) - lead + e))

\* flt2dec::Part::Zero as write_formatted_parts writes it: 64 zeros at a
\* time, then the rest
ZeroPieces(n) ==
    [i \in 1..((n + 63) \div 64) |->
        Zeros(IF i * 64 <= n THEN 64 ELSE n - (i - 1) * 64)]

\* Display of f64 (flt2dec::to_shortest_str, digits_to_dec_str and
\* Formatter::write_formatted_parts): the pieces handed to the writer, in
\* order; every piece is one write_str
FmtF64Pieces(v) ==
    LET n == Len(v.digits)
    IN  (IF v.neg /\ v.kind # "nan" THEN <<Bytes(<<"-">>)>> ELSE <<>>)
        \o (CASE v.kind = "nan" -> <<Bytes(<<"N", "a", "N">>)>>
              [] v.kind = "inf" -> <<Bytes(<<"i", "n", "f">>)>>
              [] v.kind = "zero" -> <<Bytes(<<"0">>)>>
              [] OTHER ->
                   IF v.exp <= 0
                   THEN <<Bytes(<<"0", ".">>)>> \o ZeroPieces(0 - v.exp)
                            \o <<v.digits>>
                   ELSE IF v.exp < n
                   THEN <<SubSeq(v.digits, 1, v.exp), Bytes(<<".">>),
                          SubSeq(v.digits, v.exp + 1, n)>>
                   ELSE <<v.digits>> \o ZeroPieces(v.exp - n))

RECURSIVE Concat(_)
Concat(pieces) ==
    IF Len(pieces) = 0 THEN <<>> ELSE pieces[1] \o Concat(Tail(pieces))

\* the text Display of f64 writes
FmtF64(v) == Concat(FmtF64Pieces(v))

\* ------------------------------------------------------------- reader
BedRecord(chrom, start, end, name, score, values) ==
    [chrom |-> chrom, start |-> start, end |-> end, name |-> name,
     score |-> score, values |-> values]

NoRecord == BedRecord(<<>>, <<>>, <<>>, <<>>, F64Zero, <<>>)

\* BufRead::read_line: the bytes up to and including the next '\n',
\* or all that is left
ReadLine(s) ==
    LET nls == {i \in 1..Len(s) : s[i] = NL}
        n == IF nls = {} THEN Len(s)
             ELSE CHOOSE i \in nls : \A j \in nls : i <= j
    IN  SubSeq(s, 1, n)

\* line.trim().split('\t').collect()
Fields(line) == Split(Trim(line), TAB)

Panic(msg) == [ok |-> FALSE, kind |-> "panic", msg |-> msg]

\* BedParser::next on the bytes read_line found up to the end of the
\* line: read_line fails on bytes that are no UTF-8
ParseLine(line) ==
    LET fields == Fields(line)
        n == Len(fields)
    IN  IF ~ValidUtf8(line) THEN Panic("Could not read line")
        ELSE IF Len(line) = 0 THEN [kind |-> "none"]
        ELSE IF n < 2 THEN Panic("index out of bounds")
        ELSE IF ~ParseU32(fields[2]).ok THEN Panic("Could not parse start")
        ELSE IF n < 3 THEN Panic("index out of bounds")
        ELSE IF ~ParseU32(fields[3]).ok THEN Panic("Could not parse end")
        ELSE IF n < 5 THEN Panic("index out of bounds")
        ELSE [kind |-> "some",
              record |-> BedRecord(
                  fields[1],
                  ParseU32(fields[2]).val,
                  ParseU32(fields[3]).val,
                  fields[4],
                  The({IF p.ok THEN p.val ELSE F64Zero :
                          p \in {ParseF64(fields[5])}}),
                  SubSeq(fields, 6, n))]

\* ------------------------------------------------------------- writer
HeaderText ==
    Bytes(<<"t", "r", "a", "c", "k", " ", "t", "y", "p", "e", "=",
            "b", "e", "d", "G", "r", "a", "p", "h">>)

BedGraphRecord(chrom, start, end, value) ==
    [chrom |-> chrom, start |-> start, end |-> end, value |-> value]

\* A writer is [out, buf, held, dest, room, rejected]: the kind of output,
\* the BufWriter's buffer, the buffer of stdout's LineWriter, what the
\* destination has taken, the number of bytes it still takes (negative: no
\* limit) and whether one of its writes did not take all it was handed.
\* Every operation answers with the writer after it, ok (Ok or Err) and n
\* (the bytes an Ok(n) counts).
Result(w, ok, n) == [w |-> w, ok |-> ok, n |-> n]

Min(a, b) == IF a < b THEN a ELSE b

\* memchr::memrchr(b'\n', data): the place of the last '\n', 0 for none
LastNewline(data) ==
    LET nls == {i \in 1..Len(data) : data[i] = NL}
    IN  IF nls = {} THEN 0 ELSE CHOOSE i \in nls : \A j \in nls : j <= i

\* File::write, StdoutRaw::write: one write of the descriptor.  It takes the
\* bytes there is room for and answers with their number, or with an error
\* when it can take none
RawWrite(w, data) ==
    LET k == IF w.room < 0 THEN Len(data) ELSE Min(w.room, Len(data))
    IN  IF k = 0 /\ Len(data) > 0
        THEN Result([w EXCEPT !.rejected = TRUE], FALSE, 0)
        ELSE Result([w EXCEPT !.dest = @ \o SubSeq(data, 1, k),
                              !.room = IF @ < 0 THEN @ ELSE @ - k,
                              !.rejected = @ \/ k < Len(data)],
                    TRUE, k)

RECURSIVE RawWriteAll(_, _)
\* Write::write_all: write until all is written; an error or Ok(0) ends it
RawWriteAll(w, data) ==
    IF Len(data) = 0 THEN Result(w, TRUE, 0)
    ELSE The({IF ~o.ok \/ o.n = 0 THEN Result(o.w, FALSE, 0)
              ELSE RawWriteAll(o.w, SubSeq(data, o.n + 1, Len(data))) :
                 o \in {RawWrite(w, data)}})

RECURSIVE HeldFlushBuf(_)
\* BufWriter::flush_buf of the LineWriter's buffer: the bytes the descriptor
\* takes leave the buffer, the others stay in it
HeldFlushBuf(w) ==
    IF Len(w.held) = 0 THEN Result(w, TRUE, 0)
    ELSE The({IF ~o.ok \/ o.n = 0 THEN Result(o.w, FALSE, 0)
              ELSE HeldFlushBuf([o.w EXCEPT
                                    !.held = SubSeq(@, o.n + 1, Len(@))]) :
                 o \in {RawWrite(w, w.held)}})

\* BufWriter::write_to_buf: as much of data as the buffer has room for
HeldWriteToBuf(w, data) ==
    LET amt == Min(StdoutCapacity - Len(w.held), Len(data))
    IN  Result([w EXCEPT !.held = @ \o SubSeq(data, 1, amt)], TRUE, amt)

\* the flush BufWriter::write and write_all start with when data does not
\* fit into what is left of the buffer
HeldMakeRoom(w, data) ==
    IF Len(data) > StdoutCapacity - Len(w.held) THEN HeldFlushBuf(w)
    ELSE Result(w, TRUE, 0)

\* BufWriter::write of the LineWriter's buffer
HeldWrite(w, data) ==
    IF Len(data) < StdoutCapacity - Len(w.held)
    THEN Result([w EXCEPT !.held = @ \o data], TRUE, Len(data))
    ELSE The({IF ~f.ok THEN f
              ELSE IF Len(data) >= StdoutCapacity THEN RawWrite(f.w, data)
              ELSE Result([f.w EXCEPT !.held = @ \o data], TRUE, Len(data)) :
                 f \in {HeldMakeRoom(w, data)}})

\* BufWriter::write_all of the LineWriter's buffer
HeldWriteAll(w, data) ==
    IF Len(data) < StdoutCapacity - Len(w.held)
    THEN Result([w EXCEPT !.held = @ \o data], TRUE, 0)
    ELSE The({IF ~f.ok THEN f
              ELSE IF Len(data) >= StdoutCapacity THEN RawWriteAll(f.w, data)
              ELSE Result([f.w EXCEPT !.held = @ \o data], TRUE, 0) :
                 f \in {HeldMakeRoom(w, data)}})

\* LineWriterShim::flush_if_completed_line
FlushIfCompletedLine(w) ==
    IF Len(w.held) > 0 /\ w.held[Len(w.held)] = NL THEN HeldFlushBuf(w)
    ELSE Result(w, TRUE, 0)

\* LineWriterShim::write: without a '\n' in data, a buffered write; else the
\* buffer is flushed, the lines of data go to the descriptor in one write,
\* and of what that write left, the part after the last '\n' (or the lines
\* not written, as far as they fit) is buffered; a part after the last
\* '\n' that is not shorter than the buffer is left to the next write
ShimWrite(w, data) ==
    LET newline_idx == LastNewline(data)
        Tail_(flushed) ==
            IF flushed >= newline_idx
            THEN SubSeq(data, flushed + 1, Len(data))
            ELSE IF newline_idx - flushed <= StdoutCapacity
            THEN SubSeq(data, flushed + 1, newline_idx)
            ELSE LET scan_area ==
                         SubSeq(data, flushed + 1, flushed + StdoutCapacity)
                 IN  IF LastNewline(scan_area) > 0
                     THEN SubSeq(scan_area, 1, LastNewline(scan_area))
                     ELSE scan_area
        Buffered(o) ==
            IF ~o.ok THEN o
            ELSE IF o.n = 0 THEN Result(o.w, TRUE, 0)
            ELSE IF o.n >= newline_idx
                    /\ Len(data) - o.n >= StdoutCapacity
            THEN Result(o.w, TRUE, o.n)
            ELSE The({Result(b.w, TRUE, o.n + b.n) :
                         b \in {HeldWriteToBuf(o.w, Tail_(o.n))}})
    IN  IF newline_idx = 0
        THEN The({IF ~f.ok THEN f ELSE HeldWrite(f.w, data) :
                     f \in {FlushIfCompletedLine(w)}})
        ELSE The({IF ~f.ok THEN f
                  ELSE The({Buffered(o) :
                               o \in {RawWrite(f.w,
                                               SubSeq(data, 1, newline_idx))}}) :
                     f \in {HeldFlushBuf(w)}})

\* LineWriterShim::write_all: without a '\n' in data, a buffered write_all;
\* else the lines of data go to the descriptor, directly when the buffer is
\* empty and through the buffer and a flush when it is not, and what follows
\* the last '\n' is buffered
ShimWriteAll(w, data) ==
    LET newline_idx == LastNewline(data)
        lines == SubSeq(data, 1, newline_idx)
        tail == SubSeq(data, newline_idx + 1, Len(data))
        Through(b) == IF ~b.ok THEN b ELSE HeldFlushBuf(b.w)
    IN  IF newline_idx = 0
        THEN The({IF ~f.ok THEN f ELSE HeldWriteAll(f.w, data) :
                     f \in {FlushIfCompletedLine(w)}})
        ELSE The({IF ~f.ok THEN f ELSE HeldWriteAll(f.w, tail) :
                     f \in {IF Len(w.held) = 0 THEN RawWriteAll(w, lines)
                            ELSE The({Through(b) :
                                         b \in {HeldWriteAll(w, lines)}})}})

\* what the BufWriter writes to: the file, or stdout
InnerWrite(w, data) ==
    IF w.out = "stdout" THEN ShimWrite(w, data) ELSE RawWrite(w, data)

InnerWriteAll(w, data) ==
    IF w.out = "stdout" THEN ShimWriteAll(w, data) ELSE RawWriteAll(w, data)

RECURSIVE FlushBuf(_)
\* BufWriter::flush_buf: write the buffer until it is empty; the bytes
\* written leave the buffer; an error, or Ok(0), ends it with an error
FlushBuf(w) ==
    IF Len(w.buf) = 0 THEN Result(w, TRUE, 0)
    ELSE The({IF ~o.ok \/ o.n = 0 THEN Result(o.w, FALSE, 0)
              ELSE FlushBuf([o.w EXCEPT !.buf = SubSeq(@, o.n + 1, Len(@))]) :
                 o \in {InnerWrite(w, w.buf)}})

\* BufWriter::write_all of one piece: the buffer is flushed first when the
\* piece does not fit; a piece of the capacity or more is written through;
\* any other is put into the buffer
BufWrite(w, data) ==
    IF Len(data) < BufCapacity - Len(w.buf)
    THEN Result([w EXCEPT !.buf = @ \o data], TRUE, 0)
    ELSE The({IF ~f.ok THEN f
              ELSE IF Len(data) >= BufCapacity THEN InnerWriteAll(f.w, data)
              ELSE Result([f.w EXCEPT !.buf = @ \o data], TRUE, 0) :
                 f \in {IF Len(data) > BufCapacity - Len(w.buf)
                        THEN FlushBuf(w) ELSE Result(w, TRUE, 0)}})

\* mutant of WriterNew: no header is written
WriterNewNoHeader(w) == Result(w, TRUE, 0)

\* BedGraphWriter::new: write_all(b"track type=bedGraph\n")
WriterNew(w) == BufWrite(w, HeaderText \o <<NL>>)

\* the pieces writeln!("{}\t{}\t{}\t{}") hands to write_str, in order: the
\* literal pieces that are not empty, chrom and the integers in one piece
\* each, the float in the pieces of its Display
FormatRecord(r) ==
    <<r.chrom, <<TAB>>, FmtU32(r.start), <<TAB>>, FmtU32(r.end), <<TAB>>>>
        \o FmtF64Pieces(r.value) \o << <<NL>> >>

RECURSIVE WriteFmt(_, _, _)
\* Write::write_fmt: one write_all per piece from piece i on, stopping at
\* the first error
WriteFmt(w, pieces, i) ==
    IF i > Len(pieces) THEN Result(w, TRUE, 0)
    ELSE The({IF ~o.ok THEN o ELSE WriteFmt(o.w, pieces, i + 1) :
                 o \in {BufWrite(w, pieces[i])}})

\* BedGraphWriter::write
WriterWrite(w, r) == WriteFmt(w, FormatRecord(r), 1)

\* the LineWriter of stdout is flushed for the last time (by the runtime's
\* cleanup when the process ends): BufWriter's drop, which discards the
\* error and the bytes that were not taken
ExitFlush(w) == [HeldFlushBuf(w).w EXCEPT !.held = <<>>]

\* mutant of DropWriter: the buffer is discarded, not flushed
DropWriterNoFlush(w) == ExitFlush([w EXCEPT !.buf = <<>>])

\* the writer goes out of scope (main returns, or a panic unwinds main) and
\* the process ends: BufWriter's drop flushes the buffer and discards the
\* error and the bytes that were not taken, then what it wrote to is
\* flushed in the same way
DropWriter(w) == ExitFlush([FlushBuf(w).w EXCEPT !.buf = <<>>])

\* ------------------------------------------------------------- main
SelScore == Bytes(<<"s", "c", "o", "r", "e">>)

\* match args.value_column.as_str() { "score" => -1, _ => parse::<i32>() }
ParseIndex(token) ==
    IF token = SelScore THEN Ok(0 - 1) ELSE ParseI32(token)

\* index_to_parse > 0 && index_to_parse >= record.values.len() as i32
ColumnOutOfRange(idx, r) == idx > 0 /\ idx >= Len(r.values)

\* mutant of FirstLineCheckFails: the flag is not consulted
EveryLineCheckFails(first_done, idx, r) == ColumnOutOfRange(idx, r)

\* if !has_parsed_first_line { if <out of range> { eprintln!(..); break; } }
FirstLineCheckFails(first_done, idx, r) ==
    ~first_done /\ ColumnOutOfRange(idx, r)

\* match index_to_parse { -1 => record.score, _ => record.values[idx as usize].parse() }
SelectValue(idx, r) ==
    IF idx = 0 - 1 THEN Ok(r.score)
    ELSE IF idx < 0 \/ idx >= Len(r.values)
    THEN Panic("index out of bounds")
    ELSE The({IF p.ok THEN Ok(p.val) ELSE Panic("Could not parse value") :
                 p \in {ParseF64(r.values[idx + 1])}})

\* BedGraphRecord { chrom: record.chrom, start: record.start, end: record.end, value }
MakeBedGraphRecord(r, value) == BedGraphRecord(r.chrom, r.start, r.end, value)

\* the writer as main holds it, its destination taking room more bytes
W(room) ==
    [out |-> output, buf |-> buf, held |-> held, dest |-> dest,
     room |-> room, rejected |-> sink_rejected]

\* the numbers of bytes the destination can take from one step of main on:
\* no limit, or a limit when it can run out of room
Rooms == IF sink_fails THEN {0 - 1} \cup 0..MaxRoom ELSE {0 - 1}

\* main is left with the writer in state w: the locals are dropped, the
\* writer among them when there is one, and the process ends
Leave(to, msg, w, has_writer) ==
    \E d \in {IF has_writer THEN DropWriter(w) ELSE w} :
        /\ pc' = to
        /\ panic_msg' = msg
        /\ buf' = d.buf
        /\ held' = d.held
        /\ dest' = d.dest
        /\ sink_rejected' = d.rejected

\* a panic unwinds main
Unwind(msg, w, has_writer) == Leave("panicked", msg, w, has_writer)

\* main returns (end of input, or the break)
Return(w) == Leave("done", panic_msg, w, TRUE)

\* the content of the input file after a step: the destination's, when both
\* are one file
InputFile == input' = IF output_is_input' THEN dest' ELSE input

\* BedParser::new(&args.input)
OpenInput ==
    /\ pc = "open_input"
    /\ \E opened \in BOOLEAN :
          IF opened
          THEN /\ pc' = "create_writer"
               /\ UNCHANGED <<buf, held, dest, sink_rejected, panic_msg>>
          ELSE Unwind("Could not open file", W(0 - 1), FALSE)
    /\ UNCHANGED <<output, value_column, sink_fails, rest, writer_created,
                   output_is_input, index_to_parse, has_parsed_first_line,
                   record, diag>>
    /\ InputFile

\* the ways the match of create_bedgraph_writer can go: with a file name,
\* File::create fails, or makes an empty file, which can be the file the
\* reader has open; without one, the writer is put over stdout
Creations ==
    IF output = "file" THEN {"fails", "distinct", "same"} ELSE {"distinct"}

\* create_bedgraph_writer(args.output.as_deref()).expect(..); when the
\* output is the file the reader has open, the text still to be read is gone
CreateWriter ==
    /\ pc = "create_writer"
    /\ \E out \in Creations :
          IF out = "fails"
          THEN /\ Unwind("Could not create writer", W(0 - 1), FALSE)
               /\ UNCHANGED <<writer_created, output_is_input, rest>>
          ELSE \E room \in Rooms : \E o \in {WriterNew(W(room))} :
                  /\ output_is_input' = (out = "same")
                  /\ rest' = IF out = "same" THEN <<>> ELSE rest
                  /\ IF o.ok
                     THEN /\ writer_created' = TRUE
                          /\ buf' = o.w.buf
                          /\ held' = o.w.held
                          /\ dest' = o.w.dest
                          /\ sink_rejected' = o.w.rejected
                          /\ pc' = "parse_index"
                          /\ UNCHANGED panic_msg
                     ELSE /\ \E droproom \in Rooms :
                                Unwind("Could not write header",
                                       [o.w EXCEPT !.room = droproom], TRUE)
                          /\ UNCHANGED writer_created
    /\ UNCHANGED <<output, value_column, sink_fails, index_to_parse,
                   has_parsed_first_line, record, diag>>
    /\ InputFile

\* let index_to_parse = match args.value_column.as_str() { .. }
ParseColumn ==
    /\ pc = "parse_index"
    /\ IF ParseIndex(value_column).ok
       THEN /\ index_to_parse' = ParseIndex(value_column).val
            /\ pc' = "loop"
            /\ UNCHANGED <<buf, held, dest, sink_rejected, panic_msg>>
       ELSE /\ \E droproom \in Rooms :
                  Unwind("Could not parse column index", W(droproom), TRUE)
            /\ UNCHANGED index_to_parse
    /\ UNCHANGED <<output, value_column, sink_fails, rest, writer_created,
                   output_is_input, has_parsed_first_line, record, diag>>
    /\ InputFile

\* for record in parser: the call of BedParser::next; read_line can fail
ReadRecord ==
    /\ pc = "loop"
    /\ \E readable \in BOOLEAN :
          IF ~readable
          THEN /\ \E droproom \in Rooms :
                     Unwind("Could not read line", W(droproom), TRUE)
               /\ UNCHANGED <<rest, record>>
          ELSE \E line \in {ReadLine(rest)} : \E got \in {ParseLine(line)} :
                  /\ rest' = SubSeq(rest, Len(line) + 1, Len(rest))
                  /\ IF got.kind = "none"
                     THEN /\ \E droproom \in Rooms : Return(W(droproom))
                          /\ UNCHANGED record
                     ELSE IF got.kind = "panic"
                     THEN /\ \E droproom \in Rooms :
                                Unwind(got.msg, W(droproom), TRUE)
                          /\ UNCHANGED record
                     ELSE /\ record' = got.record
                          /\ pc' = "body"
                          /\ UNCHANGED <<buf, held, dest, sink_rejected,
                                         panic_msg>>
    /\ UNCHANGED <<output, value_column, sink_fails, writer_created,
                   output_is_input, index_to_parse, has_parsed_first_line,
                   diag>>
    /\ InputFile

\* the body of the loop for one record; eprintln! panics when stderr does
\* not take the diagnostic
ProcessRecord ==
    /\ pc = "body"
    /\ IF FirstLineCheckFails(has_parsed_first_line, index_to_parse, record)
       THEN /\ \E stderr_ok \in BOOLEAN, droproom \in Rooms :
                  IF stderr_ok
                  THEN /\ diag' = Append(diag, index_to_parse)
                       /\ Return(W(droproom))
                  ELSE /\ Unwind("failed printing to stderr", W(droproom),
                                 TRUE)
                       /\ UNCHANGED diag
            /\ UNCHANGED has_parsed_first_line
       ELSE \E sel \in {SelectValue(index_to_parse, record)} :
               IF ~sel.ok
               THEN /\ \E droproom \in Rooms :
                          Unwind(sel.msg, W(droproom), TRUE)
                    /\ UNCHANGED <<has_parsed_first_line, diag>>
               ELSE \E room \in Rooms :
                    \E o \in {WriterWrite(W(room),
                                          MakeBedGraphRecord(record, sel.val))} :
                       IF ~o.ok
                       THEN /\ \E droproom \in Rooms :
                                  Unwind("Could not write record",
                                         [o.w EXCEPT !.room = droproom], TRUE)
                            /\ UNCHANGED <<has_parsed_first_line, diag>>
                       ELSE /\ buf' = o.w.buf
                            /\ held' = o.w.held
                            /\ dest' = o.w.dest
                            /\ sink_rejected' = o.w.rejected
                            /\ has_parsed_first_line' = TRUE
                            /\ pc' = "loop"
                            /\ UNCHANGED <<diag, panic_msg>>
    /\ UNCHANGED <<output, value_column, sink_fails, rest, writer_created,
                   output_is_input, index_to_parse, record>>
    /\ InputFile

\* ------------------------------------------------------------- inputs
RECURSIVE Join(_, _)
Join(fields, sep) ==
    IF Len(fields) = 0 THEN <<>>
    ELSE IF Len(fields) = 1 THEN fields[1]
    ELSE fields[1] \o <<sep>> \o Join(Tail(fields), sep)

RECURSIVE FileText(_, _)
\* the lines, each ended by '\n'; the last one only when finalNewline
FileText(lines, finalNewline) ==
    IF Len(lines) = 0 THEN <<>>
    ELSE IF Len(lines) = 1
    THEN lines[1] \o (IF finalNewline THEN <<NL>> ELSE <<>>)
    ELSE lines[1] \o <<NL>> \o FileText(Tail(lines), finalNewline)

ValueToken(j) ==
    CASE j = 1 -> Bytes(<<"7", ".", "5">>)
      [] j = 2 -> Bytes(<<"9", ".", "0">>)
      [] OTHER -> Bytes(<<".">>) \o <<DigitChar(j)>>

\* value field j of the line with k value fields; the line with two of them
\* ends in a form feed and an em space (U+2003), which trim takes off
ValueField(k, j) ==
    ValueToken(j)
        \o (IF k = 2 /\ j = 2 THEN <<Byte("\f"), 226, 128, 131>> ELSE <<>>)

\* the score of the line with k value fields: plain, with an exponent,
\* infinite
ScoreToken(k) ==
    CASE k = 1 -> Bytes(<<"5", "e", "1">>)
      [] k = 2 -> Bytes(<<"-", "I", "n", "f">>)
      [] OTHER -> Bytes(<<"5", ".", "0">>)

\* a well-formed line with k value fields; start and end tell the lines apart
GoodFields(k) ==
    <<Bytes(<<"c", "h", "r">>) \o <<DigitChar(k + 1)>>,
      Bytes(<<"1">>) \o <<DigitChar(k)>>,
      Bytes(<<"+", "2">>) \o <<DigitChar(k)>>, Bytes(<<"g">>),
      ScoreToken(k)>>
        \o [j \in 1..k |-> ValueField(k, j)]

TooBig == Bytes(<<"4", "2", "9", "4", "9", "6", "7", "2", "9", "6">>)

LineFields ==
    {GoodFields(k) : k \in 0..MaxValues}
        \cup {[GoodFields(1) EXCEPT ![2] = Bytes(<<"x">>)],
              [GoodFields(1) EXCEPT ![3] = TooBig],
              [GoodFields(0) EXCEPT ![5] = Bytes(<<"x">>)],
              [GoodFields(0) EXCEPT ![5] = <<>>],
              [GoodFields(2) EXCEPT ![6] = Bytes(<<"x">>)],
              << <<>> >>,
              << <<>> >> \o GoodFields(1),
              [GoodFields(0) EXCEPT ![1] = <<>>]}
        \cup {SubSeq(GoodFields(0), 1, j) : j \in 2..3}

Lines == {Join(f, TAB) : f \in LineFields}

LineSeqs == UNION {[1..n -> Lines] : n \in 0..MaxLines}

Inputs == {FileText(ls, nl) : ls \in LineSeqs, nl \in BOOLEAN}

Selectors ==
    {SelScore, Bytes(<<"-", "1">>), Bytes(<<"-">>) \o I32MinMagnitude,
     Bytes(<<"x">>)}
        \cup {NatToDigits(i) : i \in 0..MaxValues}


\* a chrom of n characters
LongChrom(n) == [i \in 1..n |-> Byte("c")]

\* a chrom of characters of two bytes each (U+00E9), n bytes long
WideChrom(n) == [i \in 1..n |-> IF i % 2 = 1 THEN 195 ELSE 169]

\* the inputs of the runs whose environment can fail: no line; one line;
\* two lines; a line whose chrom is as long as the BufWriter's buffer, in
\* characters of one byte and of two, so that it is written through; two
\* lines of which the second crosses the end of the buffer; a line with a
\* chrom of one character of two bytes; and a line after which the file
\* holds a byte that is no UTF-8
EnvInputs ==
    {FileText(ls, TRUE) :
        ls \in {<<>>,
                <<Join(GoodFields(1), TAB)>>,
                <<Join(GoodFields(1), TAB), Join(GoodFields(2), TAB)>>,
                <<Join([GoodFields(1) EXCEPT ![1] = LongChrom(BufCapacity)],
                       TAB)>>,
                <<Join([GoodFields(1) EXCEPT ![1] = WideChrom(BufCapacity)],
                       TAB)>>,
                <<Join([GoodFields(1) EXCEPT ![1] = WideChrom(2)], TAB)>>,
                <<Join(GoodFields(1), TAB),
                  Join([GoodFields(2) EXCEPT ![4] = <<255>>], TAB)>>,
                <<Join([GoodFields(2) EXCEPT
                           ![1] = LongChrom(BufCapacity - 40)], TAB),
                  Join(GoodFields(1), TAB)>>}}

EnvSelectors == {SelScore, Bytes(<<"0">>), Bytes(<<"1">>)}

Outputs == {"file", "stdout"}

\* lines whose floats are not the shortest text of an f64, are out of its
\* range, or are printed with zeros after the point
RoundingFields ==
    {[GoodFields(1) EXCEPT
         ![5] = Bytes(<<"1", "e", "3", "0", "9">>),
         ![6] = Bytes(<<"9", "0", "0", "7", "1", "9", "9", "2", "5", "4",
                        "7", "4", "0", "9", "9", "3">>)],
     [GoodFields(1) EXCEPT
         ![5] = Bytes(<<"-", "1", "e", "-", "4", "0", "0">>),
         ![6] = Bytes(<<"1", "e", "-", "7">>)]}

RoundingInputs == {FileText(<<Join(f, TAB)>>, TRUE) : f \in RoundingFields}

RoundingSelectors == {SelScore, Bytes(<<"0">>)}

\* the arguments and the environment of a run
Runs ==
    {[input |-> i, value_column |-> s, output |-> "file",
      sink_fails |-> FALSE] : i \in Inputs, s \in Selectors}
    \cup {[input |-> i, value_column |-> s, output |-> o, sink_fails |-> e] :
             i \in EnvInputs, s \in EnvSelectors, o \in Outputs,
             e \in BOOLEAN}
    \cup {[input |-> i, value_column |-> s, output |-> "file",
           sink_fails |-> FALSE] : i \in RoundingInputs,
                                   s \in RoundingSelectors}

Init ==
    /\ \E run \in Runs :
          /\ input = run.input
          /\ value_column = run.value_column
          /\ output = run.output
          /\ sink_fails = run.sink_fails
    /\ pc = "open_input"
    /\ rest = input
    /\ writer_created = FALSE
    /\ buf = <<>>
    /\ held = <<>>
    /\ dest = <<>>
    /\ sink_rejected = FALSE
    /\ output_is_input = FALSE
    /\ index_to_parse = 0
    /\ has_parsed_first_line = FALSE
    /\ record = NoRecord
    /\ diag = <<>>
    /\ panic_msg = ""

Next ==
    \/ OpenInput
    \/ CreateWriter
    \/ ParseColumn
    \/ ReadRecord
    \/ ProcessRecord

Spec == Init /\ [][Next]_vars

\* ------------------------------------------------------------- properties
\* everything the writer was given so far, in order, as long as the
\* destination has taken what it was handed
Stream == dest \o held \o buf

\* the number of lines read_line returns for a text before the end
NumLines(s) ==
    Cardinality({i \in 1..Len(s) : s[i] = NL})
        + (IF Len(s) > 0 /\ s[Len(s)] # NL THEN 1 ELSE 0)

\* those lines, in order: each ends with its terminator, the last one
\* possibly at the end of the text
LinesOf(s) ==
    LET nls == {i \in 1..Len(s) : s[i] = NL}
        End(k) == IF k = 0 THEN 0
                  ELSE IF k > Cardinality(nls) THEN Len(s)
                  ELSE CHOOSE p \in nls :
                          Cardinality({q \in nls : q < p}) = k - 1
    IN  [k \in 1..NumLines(s) |-> SubSeq(s, End(k - 1) + 1, End(k))]

\* a line without its terminator, split on tabs
RawFields(line) ==
    Split(IF Len(line) > 0 /\ line[Len(line)] = NL
          THEN SubSeq(line, 1, Len(line) - 1) ELSE line, TAB)

\* the lines of a text, each as its tab-separated fields
FieldLines(s) ==
    LET ls == LinesOf(s)
    IN  [i \in 1..Len(ls) |-> RawFields(ls[i])]

\* the lines given to the writer, and the lines in the destination
OutLines == FieldLines(Stream)

DestLines == FieldLines(dest)

HeaderBytes == HeaderText \o <<NL>>

HeaderLine == <<HeaderText>>

InputLines == LinesOf(input)

\* the number of input lines the reader has taken
Consumed == NumLines(input) - NumLines(rest)

\* the fields of input line i as the reader splits it
LineFieldsAt(i) == Fields(InputLines[i])

\* the tab-separated fields of line i of lines, and no fields when there is
\* no such line
FieldsOrNone(lines, i) ==
    IF i \in 1..Len(lines) THEN RawFields(lines[i]) ELSE <<>>

\* a text no field and no number is written as
NoText == <<256>>

FieldAt(f, i) == IF i \in 1..Len(f) THEN f[i] ELSE NoText

U32TextOf(tok) ==
    IF ParseU32(tok).ok THEN FmtU32(ParseU32(tok).val) ELSE NoText

F64TextOf(tok) ==
    The({IF p.ok THEN FmtF64(p.val) ELSE NoText : p \in {ParseF64(tok)}})

Exited == pc \in {"done", "panicked"}

\* the environment of the run: the input is a file of its own, every read
\* of it has succeeded, the destination has taken every byte it was handed,
\* stderr has taken the diagnostic
InputIntact == ~output_is_input

ReadsSucceed == panic_msg # "Could not read line"

SinkAccepts == ~sink_rejected

StderrAccepts == panic_msg # "failed printing to stderr"

SelIsScore == value_column = SelScore

SelIsIndex ==
    /\ value_column # SelScore
    /\ ParseI32(value_column).ok
    /\ ParseI32(value_column).val >= 0

SelIdx == ParseI32(value_column).val

\* the text of the value the selector picks from the fields f
SelectedText(f) ==
    IF SelIsScore
    THEN The({IF p.ok THEN FmtF64(p.val) ELSE FmtF64(F64Zero) :
                 p \in {ParseF64(FieldAt(f, 5))}})
    ELSE F64TextOf(FieldAt(f, 6 + SelIdx))

\* the output line the fields f stand for
ExpectedLine(f) ==
    <<FieldAt(f, 1), U32TextOf(FieldAt(f, 2)), U32TextOf(FieldAt(f, 3)),
      SelectedText(f)>>

\* the tab-separated fields f make a well-formed line for the selector: at
\* least 5 fields, valid coordinates, the selected value present and numeric
WellFormed(f) ==
    /\ Len(f) >= 5
    /\ ParseU32(f[2]).ok
    /\ ParseU32(f[3]).ok
    /\ IF SelIsScore THEN ParseF64(f[5]).ok
       ELSE Len(f) >= 6 + SelIdx /\ ParseF64(f[6 + SelIdx]).ok

AllWellFormed ==
    LET lines == InputLines
    IN  \A i \in 1..Len(lines) : WellFormed(RawFields(lines[i]))

IsPrefix(a, b) == Len(a) <= Len(b) /\ a = SubSeq(b, 1, Len(a))

\* C1: whenever the writer exists, the destination and the header line are
\* one a prefix of the other; as long as the sink takes what it is handed,
\* the first line given to the writer is the header and no later line is the
\* header; and after such a run has ended the destination begins with the
\* header line, whatever the number of records.
C1_HeaderFirstOnce ==
    writer_created =>
        /\ IsPrefix(dest, HeaderBytes) \/ IsPrefix(HeaderBytes, dest)
        /\ SinkAccepts =>
              LET out == OutLines
              IN  /\ Len(out) >= 1
                  /\ out[1] = HeaderLine
                  /\ \A i \in 2..Len(out) : out[i] # HeaderLine
        /\ (Exited /\ SinkAccepts) => IsPrefix(HeaderBytes, dest)

C1_Witness ==
    /\ pc = "done"
    /\ writer_created
    /\ input = <<>>
    /\ InputIntact
    /\ dest = HeaderBytes

\* C2: in a run whose input is a file of its own, whose reads succeed and
\* whose sink takes every byte, with the selector score or a non-negative
\* index and an input of well-formed lines only (each with at least 5
\* tab-separated fields, valid coordinates, the selected value present and
\* numeric), the run never panics and never prints the diagnostic, the
\* record lines given to the writer are always the expected lines of the
\* first input lines in input order, and when the run is over the
\* destination holds the header and exactly one line per input line.
C2_OneLinePerInputLine ==
    (/\ writer_created /\ InputIntact /\ ReadsSucceed /\ SinkAccepts
     /\ (SelIsScore \/ SelIsIndex)
     /\ AllWellFormed) =>
        LET lines == InputLines
            out == OutLines
        IN  /\ pc # "panicked"
            /\ diag = <<>>
            /\ out[1] = HeaderLine
            /\ Len(out) - 1 <= Len(lines)
            /\ \A i \in 1..(Len(out) - 1) :
                  out[i + 1] = ExpectedLine(RawFields(lines[i]))
            /\ pc = "done" =>
                  /\ buf = <<>>
                  /\ held = <<>>
                  /\ Len(out) = 1 + Len(lines)

\* C3: when the input is a file of its own and the sink takes every byte,
\* every record line given to the writer carries the first tab-separated
\* field of its input line as chrom and, as start and end, the u32 values
\* parsed from that line's second and third tab-separated fields.
C3_CoordinatesPreserved ==
    (writer_created /\ InputIntact /\ SinkAccepts) =>
        LET lines == InputLines
            out == OutLines
        IN  \A i \in 1..(Len(out) - 1) :
            LET f == FieldsOrNone(lines, i)
            IN  /\ i <= Len(lines)
                /\ Len(f) >= 3
                /\ Len(out[i + 1]) = 4
                /\ out[i + 1][1] = f[1]
                /\ ParseU32(f[2]).ok
                /\ out[i + 1][2] = FmtU32(ParseU32(f[2]).val)
                /\ ParseU32(f[3]).ok
                /\ out[i + 1][3] = FmtU32(ParseU32(f[3]).val)

\* C4: when the input is a file of its own and the sink takes every byte,
\* with a non-negative index idx the value of every record line given to the
\* writer is the tab-separated field 5+idx (0-based) of its input line
\* parsed as f64; with the selector score it is the line's fifth field
\* parsed as f64, or 0 when that field is no float.
C4_ValueSelected ==
    (/\ writer_created /\ InputIntact /\ SinkAccepts
     /\ (SelIsScore \/ SelIsIndex)) =>
        LET lines == InputLines
            out == OutLines
        IN  \A i \in 1..(Len(out) - 1) :
            LET f == FieldsOrNone(lines, i)
            IN  /\ Len(out[i + 1]) = 4
                /\ IF SelIsScore
                   THEN /\ Len(f) >= 5
                        /\ \E p \in {ParseF64(f[5])} :
                              out[i + 1][4] =
                                  FmtF64(IF p.ok THEN p.val ELSE F64Zero)
                   ELSE /\ Len(f) >= 6 + SelIdx
                        /\ \E p \in {ParseF64(f[6 + SelIdx])} :
                              p.ok /\ out[i + 1][4] = FmtF64(p.val)

\* C5: in a run whose input is a file of its own, whose reads succeed and
\* whose sink takes every byte, with the selector score, a line of at least
\* 5 tab-separated fields with valid coordinates whose fifth field is no
\* valid float (an empty fifth field at the end of the line included) does
\* not end the run in a panic, and its record line carries the value 0.
C5_ScoreDefaultsToZero ==
    (SelIsScore /\ writer_created /\ InputIntact /\ ReadsSucceed
     /\ SinkAccepts) =>
        \A k \in 1..Consumed :
            LET f == RawFields(InputLines[k])
            IN  (/\ Len(f) >= 5
                 /\ ParseU32(f[2]).ok
                 /\ ParseU32(f[3]).ok
                 /\ ~ParseF64(f[5]).ok) =>
                    /\ ~(pc = "panicked" /\ Consumed = k)
                    /\ Len(OutLines) - 1 >= k =>
                          OutLines[k + 1][4] = FmtF64(F64Zero)

\* C6: in a run whose input is a file of its own, whose reads succeed,
\* whose sink takes every byte and whose stderr takes the diagnostic, with
\* a non-negative index idx (0 included)
\* that is not smaller than the number of value fields of the first record,
\* once the first record has been handled the run has printed the diagnostic
\* naming idx and left the loop, and the writer was given the header and no
\* record line.
C6_OutOfRangeDiagnosed ==
    (/\ SelIsIndex /\ InputIntact /\ ReadsSucceed /\ SinkAccepts
     /\ StderrAccepts
     /\ Consumed >= 1
     /\ pc # "body"
     /\ ParseLine(InputLines[1]).kind = "some"
     /\ SelIdx >= Len(ParseLine(InputLines[1]).record.values)) =>
        /\ pc = "done"
        /\ diag = <<SelIdx>>
        /\ Stream = HeaderBytes

\* C7: when the input is a file of its own, a line the reader splits into
\* fewer than 5 fields (the coordinates it has being valid) ends the run
\* with the named MalformedRecordError, not with an index fault.
C7_MalformedRecordError ==
    InputIntact =>
        \A k \in 1..Consumed :
            LET f == LineFieldsAt(k)
            IN  (/\ Len(f) < 5
                 /\ Len(f) >= 2 => ParseU32(f[2]).ok
                 /\ Len(f) >= 3 => ParseU32(f[3]).ok) =>
                    /\ Consumed = k
                    /\ pc = "panicked"
                    /\ panic_msg # "index out of bounds"
                    /\ panic_msg = "MalformedRecordError"

\* the fields f hold an invalid start or end, or an invalid selected value
FatalLine(f) ==
    \/ Len(f) >= 2 /\ ~ParseU32(f[2]).ok
    \/ Len(f) >= 3 /\ ~ParseU32(f[3]).ok
    \/ SelIsIndex /\ Len(f) >= 6 + SelIdx /\ ~ParseF64(f[6 + SelIdx]).ok

\* C8: when the input is a file of its own, once the reader has taken a
\* line whose start or end field is no valid u32 or whose selected value
\* field is no valid float (fields being the tab-separated fields of the
\* line), no further line is ever taken, no record line is given to the
\* writer for that line or a later one, and the run can only end in the
\* panic of that parse.
C8_FatalStops ==
    InputIntact =>
        LET lines == InputLines
            consumed == Consumed
        IN  \A k \in 1..consumed :
            FatalLine(RawFields(lines[k])) =>
                /\ consumed = k
                /\ NumLines(Stream) - 1 < k
                /\ pc \in {"body", "panicked"}
                /\ pc = "panicked" =>
                      panic_msg \in {"Could not parse start",
                                     "Could not parse end",
                                     "Could not parse value"}

\* the number of records whose line was written before the run ended
NumWritten ==
    IF panic_msg = "Could not read line"
    THEN Consumed - (IF Consumed >= 1 /\ ~ValidUtf8(InputLines[Consumed])
                     THEN 1 ELSE 0)
    ELSE IF pc = "panicked" \/ diag # <<>>
    THEN (IF Consumed = 0 THEN 0 ELSE Consumed - 1)
    ELSE Consumed

\* C9: the destination only ever grows at the end, and so does what the
\* writer was given as long as the sink takes every byte; the step that
\* ends such a run after the writer was created moves everything in the
\* buffers to the destination; and when such a run is over the destination
\* holds the header and the line of every record written.
C9_FlushedOnEveryExit ==
    /\ [][/\ IsPrefix(dest, dest')
          /\ SinkAccepts' => IsPrefix(Stream, Stream')
          /\ (~Exited /\ Exited' /\ writer_created /\ SinkAccepts') =>
                (buf' = <<>> /\ held' = <<>> /\ dest' = Stream)]_vars
    /\ []((Exited /\ writer_created /\ SinkAccepts /\ InputIntact) =>
            /\ buf = <<>>
            /\ held = <<>>
            /\ NumLines(dest) = 1 + NumWritten
            /\ IsPrefix(HeaderBytes, dest))

C9_Witness ==
    /\ pc = "panicked"
    /\ panic_msg = "Could not parse value"
    /\ SinkAccepts /\ InputIntact
    /\ buf = <<>>
    /\ Len(DestLines) = 2

\* C10: once has_parsed_first_line is true it stays true, no diagnostic is
\* printed and the loop is left only at the end of the input or in a panic;
\* the flag is true as soon as a record line was written, and a diagnostic
\* is only ever printed for the first record.
C10_CheckedOnFirstRecordOnly ==
    /\ [][has_parsed_first_line =>
            /\ has_parsed_first_line'
            /\ diag' = diag
            /\ pc' = "done" => pc \in {"loop", "done"}]_vars
    /\ []((SinkAccepts /\ NumLines(Stream) >= 2) => has_parsed_first_line)
    /\ []((diag # <<>> /\ InputIntact) =>
            ~has_parsed_first_line /\ Consumed = 1)

C10_Witness ==
    /\ has_parsed_first_line
    /\ pc = "panicked"
    /\ panic_msg = "index out of bounds"
    /\ InputIntact
    /\ Consumed = 2
    /\ ParseLine(InputLines[2]).kind = "some"
    /\ index_to_parse > 0
    /\ index_to_parse >= Len(record.values)

====
